---- MODULE Spec2Model ----
(***************************************************************************)
(* Model of examples/scripts/rootDir/process.py: a command-line pipeline   *)
(* that reads a CSV or JSON file into a list of dicts, optionally filters  *)
(* falsy entries and stamps a timestamp, and writes CSV or JSON.           *)
(*                                                                         *)
(* Text is a tuple of one-character strings.  A Python value is a tagged   *)
(* pair <<tag, payload>>:                                                  *)
(*   <<"str", chars>>  <<"num", n>>  <<"bool", 0|1>>  <<"null", 0>>        *)
(*   <<"list", <<v1, ..., vn>>>>                                           *)
(*   <<"dict", << <<k1, v1>>, ..., <<kn, vn>> >>>>  (insertion order,      *)
(*                                                   keys are values)      *)
(***************************************************************************)
EXTENDS Integers, Sequences, FiniteSets, TLC

VARIABLES
    pc,              \* position of main: "parse","read","process","write","exit"
    argv,            \* command line: [input, output, flags]
    args,            \* argparse namespace (after parse_args)
    inFile,          \* file at the --input path
    outFile,         \* file at the --output path (file_path of the writers)
    data,            \* main: data; library calls: the data argument
    processed_data,  \* main: processed_data; library calls: the returned value
    operations,      \* the operations list passed to process_data
    exit_code,       \* -1 while running, else the process exit status
    stderr,          \* kind of the message printed on sys.stderr ("" if none)
    iolog,           \* sequence of file opens and stage entries, in order
    now,             \* the wall clock read by datetime.now()
    readback         \* library calls: value returned by read_csv

vars == <<pc, argv, args, inFile, outFile, data, processed_data, operations,
          exit_code, stderr, iolog, now, readback>>

---------------------------------------------------------------------------
(* Bounds *)

MaxRecords == 2      \* records per dataset
MaxEntries == 2      \* entries per record
MaxLen == 1          \* characters per text value
MaxClock == 1        \* clock readings 0..MaxClock

---------------------------------------------------------------------------
(* Python values *)

Str(s) == <<"str", s>>
Num(n) == <<"num", n>>
Bool(b) == <<"bool", b>>
None == <<"null", 0>>
List(xs) == <<"list", xs>>
Dict(es) == <<"dict", es>>

Tag(v) == v[1]
Val(v) == v[2]
IsDict(v) == Tag(v) = "dict"
IsList(v) == Tag(v) = "list"

\* A marker for "no value yet" / "not used by this specification".
Unset == <<"unset", 0>>

\* A test for "empty" that knows the empty text and None only.
TruthyNotBlank(v) == v # Str(<<>>) /\ v # <<"null", 0>>

\* Python truthiness, bool(v): what `if v` tests at process.py:43 and
\* `not data` at process.py:25.
Truthy(v) ==
    CASE Tag(v) = "str"  -> Len(Val(v)) > 0
      [] Tag(v) = "num"  -> Val(v) # 0
      [] Tag(v) = "bool" -> Val(v) = 1
      [] Tag(v) = "null" -> FALSE
      [] Tag(v) = "list" -> Len(Val(v)) > 0
      [] Tag(v) = "dict" -> Len(Val(v)) > 0
      [] OTHER -> FALSE

\* Entries removed from the dict while it is iterated: the entry that
\* follows a removed one is stepped over.
RECURSIVE SelectEntriesSkipping(_)
SelectEntriesSkipping(es) ==
    IF es = <<>> THEN <<>>
    ELSE IF Truthy(es[1][2]) THEN <<es[1]>> \o SelectEntriesSkipping(Tail(es))
    ELSE IF Len(es) = 1 THEN <<>>
    ELSE <<es[2]>> \o SelectEntriesSkipping(Tail(Tail(es)))

\* The entries with a truthy value, in their order (the comprehension's
\* `for k, v in item.items() if v`).
RECURSIVE SelectEntries(_)
SelectEntries(es) ==
    IF es = <<>> THEN <<>>
    ELSE IF Truthy(es[1][2]) THEN <<es[1]>> \o SelectEntries(Tail(es))
         ELSE SelectEntries(Tail(es))

\* {k: v for k, v in item.items() if v}   (process.py:43, one record)
FilterItem(item) == Dict(SelectEntries(Val(item)))

\* Keys of a dict, in insertion order.
KeysOf(item) == [i \in 1..Len(Val(item)) |-> Val(item)[i][1]]
HasKey(item, k) == \E i \in 1..Len(Val(item)) : Val(item)[i][1] = k
Lookup(item, k) ==
    Val(item)[CHOOSE i \in 1..Len(Val(item)) : Val(item)[i][1] = k][2]

\* item[k] = v : replaces the value in place, or appends a new entry.
SetItem(item, k, v) ==
    IF HasKey(item, k)
    THEN Dict([i \in 1..Len(Val(item)) |->
                 IF Val(item)[i][1] = k THEN <<k, v>> ELSE Val(item)[i]])
    ELSE Dict(Append(Val(item), <<k, v>>))

\* What `for item in v` yields; <<"raise">> when v is not iterable.
CanIterate(v) == Tag(v) \in {"list", "dict", "str"}
Items(v) ==
    CASE Tag(v) = "list" -> Val(v)
      [] Tag(v) = "dict" -> KeysOf(v)
      [] Tag(v) = "str"  -> [i \in 1..Len(Val(v)) |-> Str(<<Val(v)[i]>>)]
      [] OTHER -> <<>>

---------------------------------------------------------------------------
(* Text helpers *)

DigitChars == <<"0", "1", "2", "3", "4", "5", "6", "7", "8", "9">>

RECURSIVE NatChars(_)
NatChars(n) ==
    IF n < 10 THEN <<DigitChars[n + 1]>>
    ELSE NatChars(n \div 10) \o <<DigitChars[(n % 10) + 1]>>

\* str(n) for an int
IntChars(n) == IF n < 0 THEN <<"-">> \o NatChars(-n) ELSE NatChars(n)

TIMESTAMP == <<"t", "i", "m", "e", "s", "t", "a", "m", "p">>

\* datetime.now().isoformat(): the clock reading rendered as text.  The
\* calendar fields are abstracted to the letter T followed by the reading.
isoformat(t) == <<"T">> \o IntChars(t)

---------------------------------------------------------------------------
(* process_data (process.py:37-51) *)

\* Index of the first element that is not a dict, or 0.
FirstNonDict(xs) ==
    IF \E i \in 1..Len(xs) : ~IsDict(xs[i])
    THEN CHOOSE i \in 1..Len(xs) :
            ~IsDict(xs[i]) /\ \A j \in 1..(i - 1) : IsDict(xs[j])
    ELSE 0

\* The clock read again for every record.
StampPerRecord(t, i) == t + i - 1

\* The clock reading stored into the i-th record: line 47 reads the clock
\* once, before the loop.
StampFor(t, i) == t

\* Records left without entries dropped from the result.
FilterDropsEmptyRecords(xs) ==
    SelectSeq([i \in 1..Len(xs) |-> FilterItem(xs[i])],
              LAMBDA r : Val(r) # <<>>)

\* The list comprehension of line 43 over the items of `result`.
FilterAll(xs) == [i \in 1..Len(xs) |-> FilterItem(xs[i])]

\* Lines 48-49 over the first n items.
StampPrefix(xs, n, t) ==
    [i \in 1..Len(xs) |->
        IF i <= n THEN SetItem(xs[i], Str(TIMESTAMP), Str(isoformat(StampFor(t, i))))
        ELSE xs[i]]

InOps(name, ops) == \E i \in 1..Len(ops) : ops[i] = name

\* Returns [raised, result, data]: whether an exception escaped, the
\* returned value, and the state of the argument object afterwards (the
\* timestamp loop mutates the argument's dicts when no filtering replaced
\* them).
process_data(d, ops, t) ==
    LET doFilter == InOps("filter_empty", ops)
        doStamp == InOps("add_timestamp", ops)
        filterRaises == doFilter /\ (~CanIterate(d) \/ FirstNonDict(Items(d)) # 0)
        filtered == IF doFilter THEN List(FilterAll(Items(d))) ELSE d
    IN  IF filterRaises
        THEN [raised |-> TRUE, result |-> Unset, data |-> d]
        ELSE IF ~doStamp
        THEN [raised |-> FALSE, result |-> filtered, data |-> d]
        ELSE IF ~CanIterate(filtered)
        THEN [raised |-> TRUE, result |-> Unset, data |-> d]
        ELSE LET bad == FirstNonDict(Items(filtered))
                 n == IF bad = 0 THEN Len(Items(filtered)) ELSE bad - 1
                 \* only a list holds its dicts; a dict or str yields keys or
                 \* characters, which are never dicts
                 stamped == IF IsList(filtered)
                            THEN List(StampPrefix(Val(filtered), n, t))
                            ELSE filtered
             IN  [raised |-> bad # 0,
                  result |-> IF bad # 0 THEN Unset ELSE stamped,
                  data |-> IF doFilter THEN d ELSE stamped]

---------------------------------------------------------------------------
(* Python text conversions used by the csv writer *)

LF == "\n"
CR == "\r"
DQ == "\""
SQ == "'"
BS == "\\"
COMMA == ","
TAB == "\t"
FF == "\f"

RECURSIVE Concat(_)
Concat(ss) == IF ss = <<>> THEN <<>> ELSE ss[1] \o Concat(Tail(ss))

\* sep.join(ss)
RECURSIVE Join(_, _)
Join(sep, ss) ==
    IF ss = <<>> THEN <<>>
    ELSE IF Len(ss) = 1 THEN ss[1]
    ELSE ss[1] \o sep \o Join(sep, Tail(ss))

\* repr(s) of a str.  The quote is the apostrophe unless the text holds an
\* apostrophe and no double quote.  Backslash and the chosen quote are
\* escaped with a backslash, TAB, LF and CR are written \t, \n and \r, and
\* any other control character as \xNN (here the form feed).
ReprQuote(s) ==
    IF (\E i \in 1..Len(s) : s[i] = SQ) /\ ~(\E i \in 1..Len(s) : s[i] = DQ)
    THEN DQ ELSE SQ

ReprChar(c, q) ==
    CASE c = BS -> <<BS, BS>>
      [] c = q -> <<BS, q>>
      [] c = TAB -> <<BS, "t">>
      [] c = LF -> <<BS, "n">>
      [] c = CR -> <<BS, "r">>
      [] c = FF -> <<BS, "x", "0", "c">>
      [] OTHER -> <<c>>

RECURSIVE PyRepr(_)
PyRepr(v) ==
    CASE Tag(v) = "str"  ->
            LET q == ReprQuote(Val(v))
            IN  <<q>> \o Concat([i \in 1..Len(Val(v)) |->
                                    ReprChar(Val(v)[i], q)])
                     \o <<q>>
      [] Tag(v) = "num"  -> IntChars(Val(v))
      [] Tag(v) = "bool" -> IF Val(v) = 1 THEN <<"T", "r", "u", "e">>
                            ELSE <<"F", "a", "l", "s", "e">>
      [] Tag(v) = "null" -> <<"N", "o", "n", "e">>
      [] Tag(v) = "list" ->
            <<"[">> \o Join(<<",", " ">>,
                            [i \in 1..Len(Val(v)) |-> PyRepr(Val(v)[i])])
                    \o <<"]">>
      [] Tag(v) = "dict" ->
            <<"{">> \o Join(<<",", " ">>,
                            [i \in 1..Len(Val(v)) |->
                                PyRepr(Val(v)[i][1]) \o <<":", " ">>
                                    \o PyRepr(Val(v)[i][2])])
                    \o <<"}">>

\* str(v)
PyStr(v) == IF Tag(v) = "str" THEN Val(v) ELSE PyRepr(v)

---------------------------------------------------------------------------
(* csv.writer with the default "excel" dialect: delimiter ',', quotechar   *)
(* '"', doublequote, lineterminator '\r\n', QUOTE_MINIMAL                  *)

\* The text of one field: None is written as the empty string.
FieldText(v) == IF Tag(v) = "null" THEN <<>> ELSE PyStr(v)

NeedsQuote(s) == \E i \in 1..Len(s) : s[i] \in {COMMA, DQ, CR, LF}

QuoteField(s) ==
    IF NeedsQuote(s)
    THEN <<DQ>> \o Concat([i \in 1..Len(s) |->
                              IF s[i] = DQ THEN <<DQ, DQ>> ELSE <<s[i]>>])
                \o <<DQ>>
    ELSE s

\* writer.writerow(fields): a row whose only field is empty is written as
\* a pair of quotes so that it is not an empty line.
CsvRow(fields) ==
    LET rec == Join(<<COMMA>>, [i \in 1..Len(fields) |->
                                   QuoteField(FieldText(fields[i]))])
    IN  (IF Len(fields) > 0 /\ rec = <<>> THEN <<DQ, DQ>> ELSE rec)
        \o <<CR, LF>>

---------------------------------------------------------------------------
(* Files *)

Missing == <<"missing", <<>>>>      \* no file at the path
Denied == <<"denied", <<>>>>        \* a path that cannot be opened for writing
Text(s) == <<"text", s>>            \* a file holding the characters s
IsText(f) == f[1] = "text"

---------------------------------------------------------------------------
(* write_csv (process.py:24-31) with csv.DictWriter *)

\* DictWriter._dict_to_list: the row dict has a key that is not a fieldname
\* (extrasaction = 'raise').
HasWrongFields(row, fieldnames) ==
    \E i \in 1..Len(Val(row)) :
        ~\E j \in 1..Len(fieldnames) : fieldnames[j] = Val(row)[i][1]

RowRaises(row, fieldnames) ==
    ~IsDict(row) \/ HasWrongFields(row, fieldnames)

\* [rowdict.get(key, '') for key in fieldnames]
DictToList(row, fieldnames) ==
    [j \in 1..Len(fieldnames) |->
        IF HasKey(row, fieldnames[j]) THEN Lookup(row, fieldnames[j])
        ELSE Str(<<>>)]

\* Index of the first row writerows cannot write, or 0.
FirstBadRow(rows, fieldnames) ==
    IF \E i \in 1..Len(rows) : RowRaises(rows[i], fieldnames)
    THEN CHOOSE i \in 1..Len(rows) :
            RowRaises(rows[i], fieldnames)
            /\ \A j \in 1..(i - 1) : ~RowRaises(rows[j], fieldnames)
    ELSE 0

\* Lines 28-31: the file is opened for writing (and so created or
\* truncated), the header is the first record's keys, and writerows writes
\* the records in order until one cannot be written.
write_rows(d, f) ==
    IF f = Denied
    THEN [raised |-> TRUE, opened |-> TRUE, file |-> f]
    ELSE IF ~(IsList(d) /\ Len(Val(d)) > 0 /\ IsDict(Val(d)[1]))
    THEN [raised |-> TRUE, opened |-> TRUE, file |-> Text(<<>>)]
    ELSE LET rows == Val(d)
             fieldnames == KeysOf(rows[1])
             bad == FirstBadRow(rows, fieldnames)
             n == IF bad = 0 THEN Len(rows) ELSE bad - 1
         IN  [raised |-> bad # 0,
              opened |-> TRUE,
              file |-> Text(CsvRow(fieldnames)
                            \o Concat([i \in 1..n |->
                                  CsvRow(DictToList(rows[i], fieldnames))]))]

\* The file opened before the emptiness test.
write_csv_opens_first(d, f) == write_rows(d, f)

\* Returns [raised, opened, file]: whether an exception escaped, whether
\* open(file_path, 'w') was called, and the file afterwards.
write_csv(d, f) ==
    IF ~Truthy(d)
    THEN [raised |-> FALSE, opened |-> FALSE, file |-> f]
    ELSE write_rows(d, f)

---------------------------------------------------------------------------
(* Reading text files: open(file_path, 'r') uses universal newlines, so    *)
(* "\r\n" and a lone "\r" both reach the program as "\n"                   *)

UniversalNewlines(s) ==
    LET \* an LF right after a CR is part of the same line ending
        kept == SelectSeq([i \in 1..Len(s) |-> i],
                          LAMBDA i : ~(s[i] = LF /\ i > 1 /\ s[i - 1] = CR))
    IN  [j \in 1..Len(kept) |-> IF s[kept[j]] = CR THEN LF ELSE s[kept[j]]]

\* The characters read_csv's reader sees for a file holding s.
ReadText(s) == UniversalNewlines(s)

---------------------------------------------------------------------------
(* csv.reader, "excel" dialect: the character automaton of _csv.c          *)

EOL == "EOL"      \* the end-of-line marker fed after every line

ParserReset == [state |-> "START_RECORD", field |-> <<>>, fields |-> <<>>]

SaveField(st) ==
    [st EXCEPT !.fields = Append(st.fields, st.field), !.field = <<>>]

AddChar(st, c) == [st EXCEPT !.field = Append(st.field, c)]

AfterLineEnd(c) == IF c = EOL THEN "START_RECORD" ELSE "EAT_CRNL"

StartField(st, c) ==
    IF c \in {LF, CR, EOL}
    THEN [SaveField(st) EXCEPT !.state = AfterLineEnd(c)]
    ELSE IF c = DQ THEN [st EXCEPT !.state = "IN_QUOTED_FIELD"]
    ELSE IF c = COMMA THEN [SaveField(st) EXCEPT !.state = "START_FIELD"]
    ELSE [AddChar(st, c) EXCEPT !.state = "IN_FIELD"]

parse_process_char(st, c) ==
    CASE st.state = "START_RECORD" ->
            IF c = EOL THEN st
            ELSE IF c \in {LF, CR} THEN [st EXCEPT !.state = "EAT_CRNL"]
            ELSE StartField(st, c)
      [] st.state = "START_FIELD" -> StartField(st, c)
      [] st.state = "IN_FIELD" ->
            IF c \in {LF, CR, EOL}
            THEN [SaveField(st) EXCEPT !.state = AfterLineEnd(c)]
            ELSE IF c = COMMA
            THEN [SaveField(st) EXCEPT !.state = "START_FIELD"]
            ELSE AddChar(st, c)
      [] st.state = "IN_QUOTED_FIELD" ->
            IF c = EOL THEN st
            ELSE IF c = DQ THEN [st EXCEPT !.state = "QUOTE_IN_QUOTED_FIELD"]
            ELSE AddChar(st, c)
      [] st.state = "QUOTE_IN_QUOTED_FIELD" ->
            IF c = DQ THEN [AddChar(st, c) EXCEPT !.state = "IN_QUOTED_FIELD"]
            ELSE IF c = COMMA
            THEN [SaveField(st) EXCEPT !.state = "START_FIELD"]
            ELSE IF c \in {LF, CR, EOL}
            THEN [SaveField(st) EXCEPT !.state = AfterLineEnd(c)]
            ELSE [AddChar(st, c) EXCEPT !.state = "IN_FIELD"]
      [] st.state = "EAT_CRNL" ->
            IF c = EOL THEN [st EXCEPT !.state = "START_RECORD"]
            ELSE st

\* One character of the input: after the last character of a line (an LF,
\* or the end of the text) the end-of-line marker is fed too, and when that
\* leaves the automaton at START_RECORD the row is complete
\* (Reader.__next__ returns it and the next call resets the parser).
FeedChar(acc, s, i) ==
    LET st1 == parse_process_char(acc.p, s[i])
        lineEnds == s[i] = LF \/ i = Len(s)
        st2 == IF lineEnds THEN parse_process_char(st1, EOL) ELSE st1
    IN  IF lineEnds /\ st2.state = "START_RECORD"
        THEN [p |-> ParserReset, rows |-> Append(acc.rows, st2.fields)]
        ELSE [p |-> st2, rows |-> acc.rows]

\* The characters s[lo..hi] fed in order.
RECURSIVE FeedRange(_, _, _, _)
FeedRange(acc, s, lo, hi) ==
    IF lo > hi THEN acc
    ELSE IF lo = hi THEN FeedChar(acc, s, lo)
    ELSE LET mid == (lo + hi) \div 2
             left == FeedRange(acc, s, lo, mid)
         IN  \* the state after the left half is computed before the right
             \* half is entered
             IF left.p.state = "" THEN left
             ELSE FeedRange(left, s, mid + 1, hi)

\* Reader.__next__ repeated to exhaustion over the text s: the rows, each a
\* sequence of texts.  A field still open inside quotes at the end of the
\* input is saved and its row returned.
csv_reader(s) ==
    LET end == FeedRange([p |-> ParserReset, rows |-> <<>>], s, 1, Len(s))
    IN  IF end.p.state = "IN_QUOTED_FIELD"
        THEN Append(end.rows, SaveField(end.p).fields)
        ELSE end.rows

---------------------------------------------------------------------------
(* csv.DictReader and read_csv (process.py:12-18) *)

\* dict(zip(fieldnames, row)): a repeated fieldname keeps its first position
\* and its last value.
RECURSIVE ZipDict(_, _, _, _)
ZipDict(fieldnames, row, i, acc) ==
    IF i > Len(fieldnames) \/ i > Len(row) THEN acc
    ELSE ZipDict(fieldnames, row, i + 1,
                 SetItem(acc, Str(fieldnames[i]), Str(row[i])))

\* restval (None) for the fieldnames a short row does not reach.
RECURSIVE FillRest(_, _, _)
FillRest(fieldnames, i, acc) ==
    IF i > Len(fieldnames) THEN acc
    ELSE FillRest(fieldnames, i + 1, SetItem(acc, Str(fieldnames[i]), None))

\* DictReader.__next__ for one non-empty row.
RowDict(fieldnames, row) ==
    LET d == ZipDict(fieldnames, row, 1, Dict(<<>>))
        lf == Len(fieldnames)
        lr == Len(row)
    IN  IF lf < lr
        THEN SetItem(d, None,
                     List([j \in 1..(lr - lf) |-> Str(row[lf + j])]))
        ELSE IF lf > lr THEN FillRest(fieldnames, lr + 1, d)
        ELSE d

\* The first row is the header; empty rows after it are skipped.
DictRows(rows) ==
    IF rows = <<>> THEN <<>>
    ELSE LET body == SelectSeq(Tail(rows), LAMBDA r : r # <<>>)
         IN  [i \in 1..Len(body) |-> RowDict(rows[1], body[i])]

\* A missing file read as an empty table.
read_csv_missing_as_empty(f) ==
    IF ~IsText(f) THEN [raised |-> FALSE, result |-> List(<<>>)]
    ELSE [raised |-> FALSE,
          result |-> List(DictRows(csv_reader(ReadText(f[2]))))]

\* Returns [raised, result].
read_csv(f) ==
    IF ~IsText(f) THEN [raised |-> TRUE, result |-> Unset]
    ELSE [raised |-> FALSE,
          result |-> List(DictRows(csv_reader(ReadText(f[2]))))]

---------------------------------------------------------------------------
(* json.dump(data, f, indent=2)  (process.py:35) *)

SP == " "

\* The newline and indentation that precede an item at nesting depth n.
Indent(n) == <<LF>> \o [i \in 1..(2 * n) |-> SP]

JsonEscape(c) ==
    CASE c = DQ -> <<BS, DQ>>
      [] c = BS -> <<BS, BS>>
      [] c = LF -> <<BS, "n">>
      [] c = CR -> <<BS, "r">>
      [] c = TAB -> <<BS, "t">>
      [] c = FF -> <<BS, "f">>
      [] OTHER -> <<c>>

JsonString(s) ==
    <<DQ>> \o Concat([i \in 1..Len(s) |-> JsonEscape(s[i])]) \o <<DQ>>

\* A dict key as JSON: a str key is a string, the None key is "null".
JsonKey(k) ==
    IF Tag(k) = "str" THEN JsonString(Val(k))
    ELSE <<DQ, "n", "u", "l", "l", DQ>>

RECURSIVE JsonDump(_, _)
JsonDump(v, n) ==
    CASE Tag(v) = "str"  -> JsonString(Val(v))
      [] Tag(v) = "num"  -> IntChars(Val(v))
      [] Tag(v) = "bool" -> IF Val(v) = 1 THEN <<"t", "r", "u", "e">>
                            ELSE <<"f", "a", "l", "s", "e">>
      [] Tag(v) = "null" -> <<"n", "u", "l", "l">>
      [] Tag(v) = "list" ->
            IF Val(v) = <<>> THEN <<"[", "]">>
            ELSE <<"[">> \o Indent(n + 1)
                 \o Join(<<COMMA>> \o Indent(n + 1),
                         [i \in 1..Len(Val(v)) |-> JsonDump(Val(v)[i], n + 1)])
                 \o Indent(n) \o <<"]">>
      [] Tag(v) = "dict" ->
            IF Val(v) = <<>> THEN <<"{", "}">>
            ELSE <<"{">> \o Indent(n + 1)
                 \o Join(<<COMMA>> \o Indent(n + 1),
                         [i \in 1..Len(Val(v)) |->
                             JsonKey(Val(v)[i][1]) \o <<":", SP>>
                                 \o JsonDump(Val(v)[i][2], n + 1)])
                 \o Indent(n) \o <<"}">>

json_dump(v) == JsonDump(v, 0)

\* write_json (process.py:33-35).  Returns [raised, opened, file].
write_json(d, f) ==
    IF f = Denied THEN [raised |-> TRUE, opened |-> TRUE, file |-> f]
    ELSE [raised |-> FALSE, opened |-> TRUE, file |-> Text(json_dump(d))]

---------------------------------------------------------------------------
(* json.load  (process.py:22): a recursive-descent reading of the JSON     *)
(* grammar restricted to integers without fraction or exponent and to the  *)
(* string escapes \" \\ \/ \n \r \t                                        *)

Fail == [ok |-> FALSE, v |-> Unset, next |-> 0]
Ok(v, i) == [ok |-> TRUE, v |-> v, next |-> i]

IsWs(c) == c \in {SP, TAB, LF, CR}

RECURSIVE SkipWs(_, _)
SkipWs(s, i) == IF i <= Len(s) /\ IsWs(s[i]) THEN SkipWs(s, i + 1) ELSE i

Matches(s, i, lit) ==
    /\ i + Len(lit) - 1 <= Len(s)
    /\ \A j \in 1..Len(lit) : s[i + j - 1] = lit[j]

DigitValue(c) == (CHOOSE k \in 1..10 : DigitChars[k] = c) - 1
IsDigit(c) == \E k \in 1..10 : DigitChars[k] = c

\* The digits from i on, accumulated into acc.
RECURSIVE ScanDigits(_, _, _)
ScanDigits(s, i, acc) ==
    IF i <= Len(s) /\ IsDigit(s[i])
    THEN ScanDigits(s, i + 1, 10 * acc + DigitValue(s[i]))
    ELSE Ok(Num(acc), i)

\* An integer starting at i (the character at i is a digit): a leading 0
\* stands alone.
ScanInt(s, i) ==
    IF s[i] = "0" THEN Ok(Num(0), i + 1) ELSE ScanDigits(s, i, 0)

\* The body of a string; i is the position after the opening quote.
RECURSIVE ScanString(_, _, _)
ScanString(s, i, acc) ==
    IF i > Len(s) THEN Fail
    ELSE IF s[i] = DQ THEN Ok(Str(acc), i + 1)
    ELSE IF s[i] \in {LF, CR, TAB, FF} THEN Fail
    ELSE IF s[i] = BS
         THEN IF i + 1 > Len(s) THEN Fail
              ELSE CASE s[i + 1] = DQ  -> ScanString(s, i + 2, Append(acc, DQ))
                     [] s[i + 1] = BS  -> ScanString(s, i + 2, Append(acc, BS))
                     [] s[i + 1] = "/" -> ScanString(s, i + 2, Append(acc, "/"))
                     [] s[i + 1] = "n" -> ScanString(s, i + 2, Append(acc, LF))
                     [] s[i + 1] = "r" -> ScanString(s, i + 2, Append(acc, CR))
                     [] s[i + 1] = "t" -> ScanString(s, i + 2, Append(acc, TAB))
                     [] s[i + 1] = "f" -> ScanString(s, i + 2, Append(acc, FF))
                     [] OTHER -> Fail
    ELSE ScanString(s, i + 1, Append(acc, s[i]))

RECURSIVE ScanValue(_, _)
RECURSIVE ScanArray(_, _, _)
RECURSIVE ScanObject(_, _, _)

\* The value starting at i (no leading whitespace).
ScanValue(s, i) ==
    IF i > Len(s) THEN Fail
    ELSE CASE s[i] = DQ -> ScanString(s, i + 1, <<>>)
           [] s[i] = "[" ->
                LET j == SkipWs(s, i + 1)
                IN  IF j <= Len(s) /\ s[j] = "]" THEN Ok(List(<<>>), j + 1)
                    ELSE ScanArray(s, j, <<>>)
           [] s[i] = "{" ->
                LET j == SkipWs(s, i + 1)
                IN  IF j <= Len(s) /\ s[j] = "}" THEN Ok(Dict(<<>>), j + 1)
                    ELSE ScanObject(s, j, Dict(<<>>))
           [] s[i] = "-" ->
                IF i + 1 <= Len(s) /\ IsDigit(s[i + 1])
                THEN LET r == ScanInt(s, i + 1)
                     IN  Ok(Num(-Val(r.v)), r.next)
                ELSE Fail
           [] IsDigit(s[i]) -> ScanInt(s, i)
           [] Matches(s, i, <<"t", "r", "u", "e">>) -> Ok(Bool(1), i + 4)
           [] Matches(s, i, <<"f", "a", "l", "s", "e">>) -> Ok(Bool(0), i + 5)
           [] Matches(s, i, <<"n", "u", "l", "l">>) -> Ok(None, i + 4)
           [] OTHER -> Fail

\* The items of an array from i on (an item is expected at i).
ScanArray(s, i, acc) ==
    LET r == ScanValue(s, i)
    IN  IF ~r.ok THEN Fail
        ELSE LET j == SkipWs(s, r.next)
                 items == Append(acc, r.v)
             IN  IF j > Len(s) THEN Fail
                 ELSE IF s[j] = "]" THEN Ok(List(items), j + 1)
                 ELSE IF s[j] = COMMA THEN ScanArray(s, SkipWs(s, j + 1), items)
                 ELSE Fail

\* The members of an object from i on (a key is expected at i); a repeated
\* key keeps its last value.
ScanObject(s, i, acc) ==
    IF i > Len(s) \/ s[i] # DQ THEN Fail
    ELSE LET k == ScanString(s, i + 1, <<>>)
         IN  IF ~k.ok THEN Fail
             ELSE LET c == SkipWs(s, k.next)
                  IN  IF c > Len(s) \/ s[c] # ":" THEN Fail
                      ELSE LET r == ScanValue(s, SkipWs(s, c + 1))
                           IN  IF ~r.ok THEN Fail
                               ELSE LET j == SkipWs(s, r.next)
                                        d == SetItem(acc, k.v, r.v)
                                    IN  IF j > Len(s) THEN Fail
                                        ELSE IF s[j] = "}" THEN Ok(d, j + 1)
                                        ELSE IF s[j] = COMMA
                                        THEN ScanObject(s, SkipWs(s, j + 1), d)
                                        ELSE Fail

\* json.loads(s): one value, surrounded by optional whitespace, and nothing
\* after it.
json_loads(s) ==
    LET r == ScanValue(s, SkipWs(s, 1))
    IN  IF r.ok /\ SkipWs(s, r.next) > Len(s) THEN r ELSE Fail

\* read_json (process.py:20-22).  Returns [raised, result].
read_json(f) ==
    IF ~IsText(f) THEN [raised |-> TRUE, result |-> Unset]
    ELSE LET r == json_loads(ReadText(f[2]))
         IN  [raised |-> ~r.ok, result |-> r.v]

---------------------------------------------------------------------------
(* Command line and format detection (process.py:54-64) *)

NoArg == <<"noarg">>       \* a required option that is not on the command line

UpperChars == <<"A", "B", "C", "D", "E", "F", "G", "H", "I", "J", "K", "L", "M",
                "N", "O", "P", "Q", "R", "S", "T", "U", "V", "W", "X", "Y", "Z">>
LowerChars == <<"a", "b", "c", "d", "e", "f", "g", "h", "i", "j", "k", "l", "m",
                "n", "o", "p", "q", "r", "s", "t", "u", "v", "w", "x", "y", "z">>

LowerChar(c) ==
    IF \E k \in 1..26 : UpperChars[k] = c
    THEN LowerChars[CHOOSE k \in 1..26 : UpperChars[k] = c]
    ELSE c

\* str.lower()
lower(s) == [i \in 1..Len(s) |-> LowerChar(s[i])]

\* p.rfind(c), 1-based, 0 when absent
RFind(p, c) ==
    IF \E i \in 1..Len(p) : p[i] = c
    THEN CHOOSE i \in 1..Len(p) :
            p[i] = c /\ \A j \in (i + 1)..Len(p) : p[j] # c
    ELSE 0

\* os.path.splitext(p)[1]: from the last dot of the last path component,
\* unless only dots precede it there.
splitext(p) ==
    LET sepIndex == RFind(p, "/")
        dotIndex == RFind(p, ".")
    IN  IF dotIndex > sepIndex
           /\ \E j \in (sepIndex + 1)..(dotIndex - 1) : p[j] # "."
        THEN SubSeq(p, dotIndex, Len(p))
        ELSE <<>>

EXT_CSV == <<".", "c", "s", "v">>
EXT_JSON == <<".", "j", "s", "o", "n">>

\* The extension compared as typed.
ext_case_sensitive(path) == splitext(path)

\* input_ext / output_ext (lines 63-64)
file_ext(path) == lower(splitext(path))

FILTER_EMPTY == "filter_empty"
ADD_TIMESTAMP == "add_timestamp"

\* parser.parse_args(): the two store_true flags, whatever their order.
parse_args(av) ==
    [input |-> av.input,
     output |-> av.output,
     filter_empty |-> InOps("--filter-empty", av.flags),
     add_timestamp |-> InOps("--add-timestamp", av.flags)]

\* The operations list of lines 80-84.
build_operations(a) ==
    (IF a.filter_empty THEN <<FILTER_EMPTY>> ELSE <<>>)
    \o (IF a.add_timestamp THEN <<ADD_TIMESTAMP>> ELSE <<>>)

---------------------------------------------------------------------------
(* Inputs *)

SeqsUpTo(S, n) == UNION {[1..k -> S] : k \in 0..n}

DistinctKeys(es) ==
    \A i, j \in 1..Len(es) : es[i][1] = es[j][1] => i = j

\* Dicts of at most m entries with keys from K and values from V, in every
\* insertion order.
DictsOver(K, V, m) ==
    {Dict(es) : es \in {e \in SeqsUpTo(K \X V, m) : DistinctKeys(e)}}

KeyA == Str(<<"a">>)
KeyB == Str(<<"b">>)
KeyTs == Str(TIMESTAMP)

\* Values of every JSON type, falsy and truthy.
JsonValues ==
    {Str(<<>>), Str(<<"x">>), None, Bool(0), Num(0), Num(1),
     List(<<>>), Dict(<<>>)}

\* Text values: every text of at most MaxLen characters over the characters
\* the CSV dialect treats specially and two ordinary ones.
CsvChars == {"x", SP, COMMA, DQ, CR, LF}
TextValues == {Str(s) : s \in SeqsUpTo(CsvChars, MaxLen)}
PlainValues == {Str(<<>>), Str(<<"x">>)}

\* Arguments of process_data: datasets of one record over every value and
\* key order, and datasets of up to MaxRecords records (one of them possibly
\* not a mapping) over plain text.
ProcRecords == DictsOver({KeyA, KeyB, KeyTs}, JsonValues, MaxEntries)
PlainRecords == DictsOver({KeyA, KeyB}, PlainValues, MaxEntries)
ProcDatasets ==
    {List(<<r>>) : r \in ProcRecords}
    \cup {List(rs) : rs \in SeqsUpTo(PlainRecords \cup {Num(1)}, MaxRecords)}

\* Arguments of write_csv: text-valued datasets.
CsvRecords == DictsOver({KeyA, KeyB}, TextValues, MaxEntries)
CsvDatasets ==
    {List(<<r>>) : r \in CsvRecords}
    \cup {List(rs) : rs \in SeqsUpTo(PlainRecords, MaxRecords)}

OpLists ==
    {<<>>, <<FILTER_EMPTY>>, <<ADD_TIMESTAMP>>,
     <<FILTER_EMPTY, ADD_TIMESTAMP>>, <<ADD_TIMESTAMP, FILTER_EMPTY>>}

\* Command lines.
InputPaths ==
    {<<"i", ".", "c", "s", "v">>, <<"i", ".", "J", "S", "O", "N">>,
     <<"i", ".", "t", "x", "t">>, <<".", "c", "s", "v">>}
OutputPaths ==
    {<<"o", ".", "C", "s", "v">>, <<"o", ".", "j", "s", "o", "n">>,
     <<"o", ".", "x", "l", "s", "x">>}
FlagLists ==
    {<<>>, <<"--filter-empty">>, <<"--add-timestamp">>,
     <<"--filter-empty", "--add-timestamp">>,
     <<"--add-timestamp", "--filter-empty">>}

\* Contents of the input file: JSON documents of up to MaxRecords elements,
\* CSV tables, and texts that are neither.
MainElements ==
    {Dict(<<>>),
     Dict(<< <<KeyA, Str(<<"x">>)>>, <<KeyB, Str(<<>>)>> >>),
     Dict(<< <<KeyB, Num(0)>>, <<KeyA, List(<<Str(<<TAB, SQ>>)>>)>> >>),
     Dict(<< <<KeyTs, Str(<<>>)>>, <<KeyA, Str(<<"x">>)>> >>),
     Num(1)}
JsonTexts ==
    {json_dump(List(rs)) : rs \in SeqsUpTo(MainElements, MaxRecords)}
    \cup {<<"{", "}">>, <<"0">>, <<"[">>}
CsvTexts ==
    {<<>>,
     <<"a", COMMA, "b", CR, LF>>,
     <<"a", COMMA, "b", LF, "x", COMMA, LF, COMMA, "y", LF>>,
     <<"a", COMMA, "b", LF, "x", LF, "x", COMMA, "y", COMMA, "z", LF>>,
     <<"a", LF, DQ, "x", CR, "y", DQ, LF, LF, "x">>}
InputFiles == {Missing} \cup {Text(s) : s \in JsonTexts \cup CsvTexts}

OldText == <<"o", "l", "d">>
OutputFiles == {Missing, Denied, Text(OldText)}

---------------------------------------------------------------------------
(* main (process.py:53-99) *)

Init ==
    /\ pc = "parse"
    /\ argv \in [input : InputPaths \cup {NoArg},
                 output : OutputPaths \cup {NoArg},
                 flags : FlagLists]
    /\ args = Unset
    /\ inFile \in InputFiles
    /\ outFile \in OutputFiles
    /\ data = Unset
    /\ processed_data = Unset
    /\ operations = <<>>
    /\ exit_code = -1
    /\ stderr = ""
    /\ iolog = <<>>
    /\ now = 0
    /\ readback = Unset

\* sys.exit(code) after printing msg to sys.stderr
Exit(code, msg) ==
    /\ exit_code' = code
    /\ stderr' = msg
    /\ pc' = "exit"

\* Lines 54-60: argparse exits with status 2 when a required option is
\* missing.
ParseArgs ==
    /\ pc = "parse"
    /\ IF argv.input = NoArg \/ argv.output = NoArg
       THEN Exit(2, "usage") /\ UNCHANGED args
       ELSE /\ args' = parse_args(argv)
            /\ pc' = "read"
            /\ UNCHANGED <<exit_code, stderr>>
    /\ UNCHANGED <<argv, inFile, outFile, data, processed_data, operations,
                   iolog, now, readback>>

\* Every extension but .json read as CSV.
input_kind_no_check(ext) == IF ext = EXT_JSON THEN "json" ELSE "csv"

\* Which reader the input extension selects (lines 68-74).
input_kind(ext) ==
    IF ext = EXT_CSV THEN "csv"
    ELSE IF ext = EXT_JSON THEN "json"
    ELSE "unsupported"

\* Lines 66-77.
ReadData ==
    /\ pc = "read"
    /\ LET kind == input_kind(file_ext(args.input))
           r == IF kind = "csv" THEN read_csv(inFile) ELSE read_json(inFile)
       IN  IF kind = "unsupported"
           THEN Exit(1, "unsupported_input") /\ UNCHANGED <<data, iolog>>
           ELSE /\ iolog' = iolog \o <<"read", "open_input">>
                /\ IF r.raised
                   THEN Exit(1, "read_failed") /\ UNCHANGED data
                   ELSE /\ data' = r.result
                        /\ pc' = "process"
                        /\ UNCHANGED <<exit_code, stderr>>
    /\ UNCHANGED <<argv, args, inFile, outFile, processed_data, operations,
                   now, readback>>

\* Lines 79-86.  An exception of process_data is caught by nothing: the
\* interpreter prints a traceback and exits with status 1.
ProcessData ==
    /\ pc = "process"
    /\ operations' = build_operations(args)
    /\ \E t \in now..MaxClock :
        /\ (~args.add_timestamp => t = now)
        /\ now' = t
        /\ LET r == process_data(data, operations', t)
           IN  /\ data' = r.data
               /\ iolog' = Append(iolog, "process")
               /\ IF r.raised
                  THEN Exit(1, "traceback") /\ UNCHANGED processed_data
                  ELSE /\ processed_data' = r.result
                       /\ pc' = "write"
                       /\ UNCHANGED <<exit_code, stderr>>
    /\ UNCHANGED <<argv, args, inFile, outFile, readback>>

\* Every extension but .csv written as JSON.
output_kind_default_json(ext) == IF ext = EXT_CSV THEN "csv" ELSE "json"

\* Which writer the output extension selects (lines 90-96).
output_kind(ext) ==
    IF ext = EXT_CSV THEN "csv"
    ELSE IF ext = EXT_JSON THEN "json"
    ELSE "unsupported"

\* Lines 88-99.
WriteData ==
    /\ pc = "write"
    /\ LET kind == output_kind(file_ext(args.output))
           w == IF kind = "csv" THEN write_csv(processed_data, outFile)
                ELSE write_json(processed_data, outFile)
       IN  IF kind = "unsupported"
           THEN Exit(1, "unsupported_output") /\ UNCHANGED <<outFile, iolog>>
           ELSE /\ outFile' = w.file
                /\ iolog' = iolog \o <<"write">>
                            \o (IF w.opened THEN <<"open_output">> ELSE <<>>)
                /\ IF w.raised THEN Exit(1, "write_failed")
                   ELSE Exit(0, "")
    /\ UNCHANGED <<argv, args, inFile, data, processed_data, operations,
                   now, readback>>

Next == ParseArgs \/ ReadData \/ ProcessData \/ WriteData

Spec == Init /\ [][Next]_vars

---------------------------------------------------------------------------
(* process_data called as a function: once on an argument, and once more   *)
(* on the value it returned                                                *)

InitProcess ==
    /\ pc = "call"
    /\ data \in ProcDatasets
    /\ processed_data = Unset
    /\ operations = <<>>
    /\ stderr = ""
    /\ now = 0
    /\ iolog = <<>>
    /\ argv = Unset /\ args = Unset /\ inFile = Missing /\ outFile = Missing
    /\ exit_code = -1 /\ readback = Unset

\* processed_data = process_data(data, ops); `data` is the argument object,
\* afterwards in the state the call left it in.
CallProcessData ==
    /\ pc \in {"call", "call_again"}
    /\ \E ops \in OpLists, t \in now..MaxClock :
        /\ (~InOps(ADD_TIMESTAMP, ops) => t = now)
        /\ now' = t
        /\ operations' = ops
        /\ LET r == process_data(data, ops, t)
           IN  /\ data' = r.data
               /\ processed_data' = r.result
               /\ stderr' = IF r.raised THEN "raised" ELSE ""
    /\ iolog' = Append(iolog, pc)
    /\ pc' = IF pc = "call" THEN "returned" ELSE "returned_again"
    /\ UNCHANGED <<argv, args, inFile, outFile, exit_code, readback>>

\* The caller passes the returned value to the next call.
PassResult ==
    /\ pc = "returned"
    /\ stderr = ""
    /\ data' = processed_data
    /\ pc' = "call_again"
    /\ UNCHANGED <<argv, args, inFile, outFile, processed_data, operations,
                   exit_code, stderr, iolog, now, readback>>

NextProcess == CallProcessData \/ PassResult

SpecProcess == InitProcess /\ [][NextProcess]_vars

---------------------------------------------------------------------------
(* write_csv and read_csv called as functions on one path: a dataset is    *)
(* written and the path is read back                                       *)

InitCsv ==
    /\ pc = "write_csv"
    /\ data \in CsvDatasets
    /\ outFile \in {Missing, Text(OldText)}
    /\ readback = Unset
    /\ stderr = ""
    /\ iolog = <<>>
    /\ processed_data = Unset /\ operations = <<>> /\ now = 0
    /\ argv = Unset /\ args = Unset /\ inFile = Missing /\ exit_code = -1

\* write_csv(data, file_path)
CallWriteCsv ==
    /\ pc = "write_csv"
    /\ LET w == write_csv(data, outFile)
       IN  /\ outFile' = w.file
           /\ stderr' = IF w.raised THEN "raised" ELSE ""
           /\ iolog' = IF w.opened THEN <<"open_output">> ELSE <<>>
    /\ pc' = "read_csv"
    /\ UNCHANGED <<argv, args, inFile, data, processed_data, operations,
                   exit_code, now, readback>>

\* readback = read_csv(file_path)
CallReadCsv ==
    /\ pc = "read_csv"
    /\ LET r == read_csv(outFile)
       IN  /\ readback' = r.result
           /\ stderr' = IF r.raised THEN "raised" ELSE stderr
    /\ pc' = "done"
    /\ UNCHANGED <<argv, args, inFile, outFile, data, processed_data,
                   operations, exit_code, iolog, now>>

NextCsv == CallWriteCsv \/ CallReadCsv

SpecCsv == InitCsv /\ [][NextCsv]_vars

---------------------------------------------------------------------------
(* Vocabulary of the properties *)

Supported == {EXT_CSV, EXT_JSON}

\* The command line names both files (argparse accepted it).
HasPaths == argv.input # NoArg /\ argv.output # NoArg

InputExtLower == lower(splitext(argv.input))
OutputExtLower == lower(splitext(argv.output))

FilterRequested == InOps("--filter-empty", argv.flags)
TimestampRequested == InOps("--add-timestamp", argv.flags)

\* The stages entered so far, in order.
StageLog == SelectSeq(iolog, LAMBDA e : e \in {"read", "process", "write"})
AllStages == <<"read", "process", "write">>

Logged(e) == \E i \in 1..Len(iolog) : iolog[i] = e
LoggedNext(e) == \E i \in 1..Len(iolog') : iolog'[i] = e

\* The values the specification calls empty.
EmptyValues == {Str(<<>>), None, Bool(0), Num(0), List(<<>>), Dict(<<>>)}

AllDicts(d) == IsList(d) /\ \A i \in 1..Len(Val(d)) : IsDict(Val(d)[i])

WithoutKey(es, k) == SelectSeq(es, LAMBDA e : e[1] # k)

\* res holds exactly the entries of inp whose value is not empty, in the
\* order they have in inp.
IsNonEmptySelection(res, inp) ==
    LET keep == {j \in 1..Len(inp) : inp[j][2] \notin EmptyValues}
    IN  /\ Len(res) = Cardinality(keep)
        /\ \A j \in keep : res[Cardinality({h \in keep : h <= j})] = inp[j]

IsCallStep ==
    /\ pc \in {"call", "call_again"}
    /\ pc' \in {"returned", "returned_again"}

---------------------------------------------------------------------------
(* Properties of main, checked under Spec *)

\* C1: when the lower-cased extension of --input is neither .csv nor .json,
\* no step of the run opens the input file or changes the output path, the
\* run never reaches the transformation, and it ends with exit code 1 and
\* the unsupported-input message.
C1_UnsupportedInputRejected ==
    [][(HasPaths /\ InputExtLower \notin Supported)
        => /\ outFile' = outFile
           /\ inFile' = inFile
           /\ iolog' = <<>>
           /\ pc' \in {"read", "exit"}
           /\ (pc' = "exit" => exit_code' = 1 /\ stderr' = "unsupported_input")
      ]_vars

\* C1 witness: a run on an unsupported input extension has ended, with an
\* existing output file still holding its old content.
C1_Witness ==
    /\ pc = "exit"
    /\ HasPaths
    /\ InputExtLower \notin Supported
    /\ exit_code = 1
    /\ stderr = "unsupported_input"
    /\ outFile = Text(OldText)
    /\ inFile # Missing

\* C2: the stages run in the order read, transform, write, each at most
\* once; exit code 0 requires all three to have completed on supported
\* formats; every reported failure gives exit code 1; and the stage that
\* failed is the last one that ran.
C2_StagesInOrderFailuresTerminal ==
    /\ StageLog = SubSeq(AllStages, 1, Len(StageLog))
    /\ (exit_code = 0
          => /\ pc = "exit"
             /\ StageLog = AllStages
             /\ InputExtLower \in Supported
             /\ OutputExtLower \in Supported
             /\ data # Unset
             /\ processed_data # Unset
             /\ stderr = "")
    /\ (stderr \in {"read_failed", "unsupported_input", "write_failed",
                    "unsupported_output", "traceback"}
          => pc = "exit" /\ exit_code = 1)
    /\ (pc = "exit" /\ HasPaths
          => /\ exit_code \in {0, 1}
             /\ (InputExtLower \notin Supported
                   => stderr = "unsupported_input" /\ StageLog = <<>>)
             /\ (stderr = "read_failed" => StageLog = <<"read">>)
             /\ (stderr = "traceback" => StageLog = <<"read", "process">>)
             /\ (OutputExtLower \notin Supported => exit_code = 1)
             /\ (stderr = "unsupported_output"
                   => StageLog = <<"read", "process">>)
             /\ (stderr = "write_failed" => StageLog = AllStages)
             /\ (InputExtLower \in Supported /\ inFile = Missing
                   => stderr = "read_failed")
             /\ (OutputExtLower = EXT_JSON /\ outFile = Denied
                    /\ processed_data # Unset
                   => stderr = "write_failed"))

\* C2 witness: one run ended in a write failure after all three stages, on
\* an output path that cannot be opened.
C2_Witness ==
    /\ pc = "exit"
    /\ exit_code = 1
    /\ stderr = "write_failed"
    /\ StageLog = AllStages
    /\ outFile = Denied

\* C4: after process_data returned on a dataset of N >= 1 records with
\* add_timestamp requested (with or without filter_empty, the flags in
\* either order), the result has N records, every one of them has a
\* timestamp key, and all of them hold the same non-empty text.
C4_TimestampUniform ==
    (pc \in {"write", "exit"} /\ processed_data # Unset /\ TimestampRequested
       /\ IsList(data) /\ Len(Val(data)) >= 1)
      => /\ AllDicts(processed_data)
         /\ Len(Val(processed_data)) = Len(Val(data))
         /\ \A i \in 1..Len(Val(processed_data)) :
               /\ HasKey(Val(processed_data)[i], KeyTs)
               /\ Lookup(Val(processed_data)[i], KeyTs)
                    = Lookup(Val(processed_data)[1], KeyTs)
               /\ Tag(Lookup(Val(processed_data)[i], KeyTs)) = "str"
               /\ Lookup(Val(processed_data)[i], KeyTs) \notin EmptyValues

\* C4 witness: two records were stamped with the flags given as
\* --add-timestamp --filter-empty, one of them having lost an empty
\* `timestamp` entry to the filter first.
C4_Witness ==
    /\ pc = "exit"
    /\ exit_code = 0
    /\ argv.flags = <<"--add-timestamp", "--filter-empty">>
    /\ IsList(data) /\ Len(Val(data)) = 2
    /\ \E i \in 1..2 : IsDict(Val(data)[i])
                       /\ HasKey(Val(data)[i], KeyTs)
                       /\ Lookup(Val(data)[i], KeyTs) = Str(<<>>)
    /\ Len(Val(processed_data)) = 2
    /\ \A i \in 1..2 : HasKey(Val(processed_data)[i], KeyTs)

\* C7: an empty dataset passes through the transformation unchanged
\* whatever the flags; the CSV writer then leaves the output path as it
\* was without opening it, the JSON writer (on a path that can be opened)
\* writes the text [], and the exit code is 0.
C7_EmptyDataset ==
    [][/\ (pc = "process" /\ data = List(<<>>))
            => pc' = "write" /\ processed_data' = List(<<>>)
       /\ (pc = "write" /\ processed_data = List(<<>>)
              /\ OutputExtLower = EXT_CSV)
            => /\ outFile' = outFile
               /\ ~LoggedNext("open_output")
               /\ pc' = "exit" /\ exit_code' = 0 /\ stderr' = ""
       /\ (pc = "write" /\ processed_data = List(<<>>)
              /\ OutputExtLower = EXT_JSON /\ outFile # Denied)
            => /\ outFile' = Text(<<"[", "]">>)
               /\ pc' = "exit" /\ exit_code' = 0 /\ stderr' = ""
      ]_vars

\* C7 witness: an empty dataset was processed with both flags and written
\* to a .csv path whose existing file kept its content.
C7_Witness ==
    /\ pc = "exit"
    /\ exit_code = 0
    /\ data = List(<<>>)
    /\ processed_data = List(<<>>)
    /\ FilterRequested /\ TimestampRequested
    /\ OutputExtLower = EXT_CSV
    /\ outFile = Text(OldText)
    /\ ~Logged("open_output")

\* C8 as stated: with an unsupported output extension and the input read
\* successfully (as a list of records), the run ends with exit code 1 and
\* the unsupported-output message, the output path never opened.
C8_AsStated ==
    (pc = "exit" /\ HasPaths /\ OutputExtLower \notin Supported
       /\ Logged("open_input") /\ stderr # "read_failed" /\ IsList(data))
      => /\ exit_code = 1
         /\ stderr = "unsupported_output"
         /\ ~Logged("open_output")

\* C8 amended: with an unsupported output extension no step changes or
\* opens the output path; the run ends with exit code 1, with the
\* unsupported-output message when the input was read and the
\* transformation returned, and with the interpreter's traceback when the
\* transformation raised.
C8_UnsupportedOutputRejected ==
    [][(HasPaths /\ OutputExtLower \notin Supported)
        => /\ outFile' = outFile
           /\ ~LoggedNext("open_output")
           /\ ~LoggedNext("write")
           /\ (pc' = "exit" => exit_code' = 1)
           /\ (pc' = "exit" /\ processed_data' # Unset
                 => stderr' = "unsupported_output")
           /\ (pc' = "exit" /\ LoggedNext("process") /\ processed_data' = Unset
                 => stderr' = "traceback")
      ]_vars

\* C8 witness: the input was read and transformed, the output extension
\* was rejected, and the existing output file kept its content.
C8_Witness ==
    /\ pc = "exit"
    /\ OutputExtLower \notin Supported
    /\ processed_data # Unset
    /\ exit_code = 1
    /\ stderr = "unsupported_output"
    /\ outFile = Text(OldText)

---------------------------------------------------------------------------
(* Properties of process_data, checked under SpecProcess *)

\* C3: a call with filter_empty on a dataset of mapping records returns
\* normally, one record per input record, each holding exactly the entries
\* of its input record whose value is not empty, with the same values and
\* in the same relative order (the timestamp entry aside when add_timestamp
\* was requested too).
C3_FilterKeepsExactlyNonEmpty ==
    [][(IsCallStep /\ InOps(FILTER_EMPTY, operations') /\ AllDicts(data))
        => /\ stderr' = ""
           /\ AllDicts(processed_data')
           /\ Len(Val(processed_data')) = Len(Val(data))
           /\ \A i \in 1..Len(Val(data)) :
                IF InOps(ADD_TIMESTAMP, operations')
                THEN IsNonEmptySelection(
                         WithoutKey(Val(Val(processed_data')[i]), KeyTs),
                         WithoutKey(Val(Val(data)[i]), KeyTs))
                ELSE IsNonEmptySelection(Val(Val(processed_data')[i]),
                                         Val(Val(data)[i]))
      ]_vars

\* C3 witness: filter_empty alone returned a record that kept two entries
\* in their order, b before a, from an argument record that had them.
C3_Witness ==
    /\ pc = "returned"
    /\ operations = <<FILTER_EMPTY>>
    /\ stderr = ""
    /\ Len(Val(data)) = 1
    /\ KeysOf(Val(processed_data)[1]) = <<KeyB, KeyA>>
    /\ Val(processed_data)[1] = Val(data)[1]

\* C9: filter_empty applied to the value a filter_empty call returned
\* returns normally a value equal to it.
C9_FilterIdempotent ==
    [][(pc = "call_again" /\ pc' = "returned_again"
          /\ operations = <<FILTER_EMPTY>> /\ operations' = <<FILTER_EMPTY>>)
        => stderr' = "" /\ processed_data' = data
      ]_vars

\* C9 witness: the second filter_empty call returned, on a first result
\* that had lost entries and kept one.
C9_Witness ==
    /\ pc = "returned_again"
    /\ iolog = <<"call", "call_again">>
    /\ operations = <<FILTER_EMPTY>>
    /\ stderr = ""
    /\ Len(Val(processed_data)) = 1
    /\ Len(Val(Val(processed_data)[1])) = 1

\* C10: a call that returns on a list returns a list of the same length
\* whose i-th record has, the timestamp entry aside, only entries of the
\* i-th argument record, and all of them when filter_empty was not
\* requested; with no operation the returned value is the argument, which
\* is left as it was.
C10_RecordsPreserved ==
    [][(IsCallStep /\ IsList(data) /\ stderr' = "")
        => /\ IsList(processed_data')
           /\ Len(Val(processed_data')) = Len(Val(data))
           /\ (operations' # <<>> =>
                 \A i \in 1..Len(Val(data)) :
                    LET res == WithoutKey(Val(Val(processed_data')[i]), KeyTs)
                        inp == WithoutKey(Val(Val(data)[i]), KeyTs)
                    IN  /\ \A k \in 1..Len(res) :
                              \E j \in 1..Len(inp) : inp[j] = res[k]
                        /\ (~InOps(FILTER_EMPTY, operations') => res = inp))
           /\ (operations' = <<>> =>
                 processed_data' = data /\ data' = data)
      ]_vars

\* C10 witness: a two-record dataset was filtered, one record was left with
\* no entries, and both records are still there, in place.
C10_Witness ==
    /\ pc = "returned"
    /\ InOps(FILTER_EMPTY, operations)
    /\ stderr = ""
    /\ Len(Val(data)) = 2
    /\ Len(Val(processed_data)) = 2
    /\ Val(data)[1] # Dict(<<>>)
    /\ Val(processed_data)[1] = Dict(<<>>)
    /\ Val(processed_data)[2] # Dict(<<>>)

---------------------------------------------------------------------------
(* Properties of write_csv and read_csv, checked under SpecCsv *)

SameKeys(r1, r2) ==
    /\ \A i \in 1..Len(Val(r1)) : HasKey(r2, Val(r1)[i][1])
    /\ \A i \in 1..Len(Val(r2)) : HasKey(r1, Val(r2)[i][1])

HasEntries(r) == Len(Val(r)) >= 1

\* C5 as stated (on records that have at least one entry each): write_csv
\* on a non-empty dataset completes, whatever the key sets of the records,
\* and the file holds the header of the first record's keys followed by one
\* row per record.
C5_AsStated ==
    (pc = "read_csv" /\ Len(Val(data)) >= 1
       /\ \A i \in 1..Len(Val(data)) : HasEntries(Val(data)[i]))
      => /\ stderr = ""
         /\ IsText(outFile)
         /\ Len(csv_reader(outFile[2])) = 1 + Len(Val(data))

\* C6 as stated (on non-empty datasets of records that have at least one
\* entry each): a dataset whose records all have the same keys, written by
\* write_csv and read back by read_csv, is read back equal: as many
\* records, in order, with the same keys and values.
C6_AsStated ==
    (pc = "done" /\ Len(Val(data)) >= 1
       /\ \A i \in 1..Len(Val(data)) :
             HasEntries(Val(data)[i]) /\ SameKeys(Val(data)[i], Val(data)[1]))
      => /\ stderr = ""
         /\ IsList(readback)
         /\ Len(Val(readback)) = Len(Val(data))
         /\ \A i \in 1..Len(Val(data)) :
               /\ SameKeys(Val(readback)[i], Val(data)[i])
               /\ \A k \in 1..Len(Val(Val(data)[i])) :
                     Lookup(Val(readback)[i], Val(Val(data)[i])[k][1])
                       = Val(Val(data)[i])[k][2]

====
